---- MODULE Spec2Model ----
(***************************************************************************)
(* Model of the microkinetics_motionet protocol engine:                    *)
(*   core/frame.py       Frame codec (send_frame, _decode_*, checksum)     *)
(*   core/query_set.py   Transaction layer (query, set, local_query/set)   *)
(*   interface_wrapper/interface.py   byte accumulation over the serial    *)
(*                                    channel (send_string,                *)
(*                                    get_data_or_timeout)                 *)
(* Python indices are 0-based; At and Slice translate them.                *)
(***************************************************************************)
EXTENDS Integers, Sequences, FiniteSets, TLC

VARIABLES pc, op, tx_frame, timeout, script, trials_left, sends, is_ready,
          result, inbuf, response_frame, runtime_milliseconds, wire, calls, codec

vars == <<pc, op, tx_frame, timeout, script, trials_left, sends, is_ready,
          result, inbuf, response_frame, runtime_milliseconds, wire, calls, codec>>

txnVars == <<pc, op, tx_frame, timeout, script, trials_left, sends, is_ready,
             result, inbuf, response_frame, runtime_milliseconds, wire, calls>>

(***************************************************************************)
(* Bounds of the model.                                                    *)
(***************************************************************************)
\* longest request payload (characters) drawn for the codec checks
MaxPayloadLen == 2
\* longest byte sequence drawn for the checksum checks
MaxSeqLen == 3
\* largest step of the monotonic clock between two reads, in ticks of 10 ms
MaxDelta == 2
\* largest per-attempt timeout drawn for a transaction, in ticks of 10 ms
MaxTimeout == 12
\* number of query / set calls made on one QuerySet
MaxCalls == 2
\* longest data-section payload drawn for the decoder checks
MaxDataLen == 2

(***************************************************************************)
(* Bit operations on naturals, as Python's | and & compute them.           *)
(***************************************************************************)
RECURSIVE BitOr(_, _)
BitOr(a, b) ==
    IF a = 0 THEN b
    ELSE IF b = 0 THEN a
    ELSE (IF a % 2 = 1 \/ b % 2 = 1 THEN 1 ELSE 0) + 2 * BitOr(a \div 2, b \div 2)

RECURSIVE BitAnd(_, _)
BitAnd(a, b) ==
    IF a = 0 \/ b = 0 THEN 0
    ELSE (IF a % 2 = 1 /\ b % 2 = 1 THEN 1 ELSE 0) + 2 * BitAnd(a \div 2, b \div 2)

\* Python s[k]
At(s, k) == s[k + 1]

\* Python s[a:b] for 0 <= a, 0 <= b
Slice(s, a, b) ==
    LET hi == IF b < Len(s) THEN b ELSE Len(s)
    IN  IF a >= hi THEN <<>> ELSE SubSeq(s, a + 1, hi)

(***************************************************************************)
(* core/var_convert.py                                                     *)
(***************************************************************************)
\* an address byte appended without the marking high bit
AddAddressNoMark(stream, value) == Append(stream, value)

add_address(stream, value) == Append(stream, BitOr(value, 128))

add_uint8(stream, value) == Append(stream, value)

add_string(stream, value) == stream \o value

(***************************************************************************)
(* core/frame.py                                                           *)
(***************************************************************************)
\* ReturnCode enumeration
ReturnCode == {3, 4, 5, 7, 8, 12, 14, 15, 16, 17, 20, 22, 29, 32}

\* the characters a request payload is made of, and Python's ord() on them
Chars == {"E", "M", "?", "1", "9"}

Ord(c) ==
    CASE c = "E" -> 69
      [] c = "M" -> 77
      [] c = "?" -> 63
      [] c = "1" -> 49
      [] c = "9" -> 57
      [] c = "0" -> 48
      [] c = "2" -> 50
      [] c = "3" -> 51
      [] c = "4" -> 52
      [] c = "5" -> 53
      [] c = "6" -> 54
      [] c = "7" -> 55
      [] c = "8" -> 56

RECURSIVE SumBytes(_)
SumBytes(frame) ==
    IF frame = <<>> THEN 0 ELSE frame[1] + SumBytes(Tail(frame))

\* a checksum that is the plain sum of the bytes, without the mask
CalcChecksumNoMask(frame) == SumBytes(frame)

\* a checksum that keeps the low 8 bits instead of the low 7
CalcChecksumMask8(frame) == BitAnd(SumBytes(frame), 255)

\* Frame._calc_checksum
CalcChecksum(frame) == BitAnd(SumBytes(frame), 127)

RECURSIVE OrdAll(_)
OrdAll(payload) ==
    IF payload = <<>> THEN <<>> ELSE <<Ord(payload[1])>> \o OrdAll(Tail(payload))

\* send_frame that does not repeat the address after the payload
TxStreamNoRepeat(address, payload) ==
    LET s1 == add_address(<<>>, address)
        s2 == s1 \o OrdAll(payload)
    IN  add_uint8(s2, CalcChecksum(s2))

\* Frame.send_frame: the bytes handed to send_string
TxStream(address, payload) ==
    LET s1 == add_address(<<>>, address)
        s2 == s1 \o OrdAll(payload)
        s3 == add_address(s2, address)
    IN  add_uint8(s3, CalcChecksum(s3))

\* a comparison that never reports a mismatch
ChecksumMatchesAlways(region, actual) == CalcChecksum(region) = CalcChecksum(region)

\* the comparison of a calculated checksum with the received trailer
ChecksumMatches(region, actual) == CalcChecksum(region) = actual

NoEcho == [address |-> -1, command |-> -1, return_code |-> -1]
NoData == [address |-> -1, command |-> -1, payload |-> <<>>]

\* a decoder that keeps the raw status byte without looking it up
DecodeEchoRawStatus(rx_stream) ==
    IF Len(rx_stream) < 5
    THEN [exc |-> "IndexError", echo |-> NoEcho]
    ELSE IF ~ChecksumMatches(Slice(rx_stream, 0, 4), At(rx_stream, 4))
    THEN [exc |-> "ChecksumException", echo |-> NoEcho]
    ELSE [exc |-> "none",
          echo |-> [address |-> At(rx_stream, 0),
                    command |-> At(rx_stream, 1),
                    return_code |-> At(rx_stream, 2)]]

\* Frame._decode_echo: exc is the exception raised, "none" when it returns
DecodeEcho(rx_stream) ==
    IF Len(rx_stream) < 3
    THEN [exc |-> "IndexError", echo |-> NoEcho]
    ELSE IF At(rx_stream, 2) \notin ReturnCode
    THEN [exc |-> "ValueError", echo |-> NoEcho]
    ELSE IF Len(rx_stream) < 5
    THEN [exc |-> "IndexError", echo |-> NoEcho]
    ELSE IF ~ChecksumMatches(Slice(rx_stream, 0, 4), At(rx_stream, 4))
    THEN [exc |-> "ChecksumException", echo |-> NoEcho]
    ELSE [exc |-> "none",
          echo |-> [address |-> At(rx_stream, 0),
                    command |-> At(rx_stream, 1),
                    return_code |-> At(rx_stream, 2)]]

\* a scan that stops at the last byte equal to the address, not the first
ScanTerminatorLast(rx_stream, address, i) ==
    LET hits == {k \in i..(Len(rx_stream) - 1) : At(rx_stream, k) = address}
    IN  IF hits = {} THEN Len(rx_stream)
        ELSE CHOOSE k \in hits : \A j \in hits : j <= k

\* the scan "while rx_stream[i] != data_frame.address: i += 1";
\* Len(rx_stream) stands for the IndexError of running off the buffer
RECURSIVE ScanTerminator(_, _, _)
ScanTerminator(rx_stream, address, i) ==
    IF i >= Len(rx_stream) THEN Len(rx_stream)
    ELSE IF At(rx_stream, i) = address THEN i
    ELSE ScanTerminator(rx_stream, address, i + 1)

\* a decoder that takes the end of the buffer as the terminator
DecodeDataLenient(rx_stream) ==
    IF Len(rx_stream) < 7
    THEN [exc |-> "IndexError", data |-> NoData]
    ELSE LET address == At(rx_stream, 5)
             i == ScanTerminator(rx_stream, address, 7)
         IN  IF i >= Len(rx_stream) \/ i + 1 >= Len(rx_stream)
             THEN [exc |-> "none",
                   data |-> [address |-> address,
                             command |-> At(rx_stream, 6),
                             payload |-> Slice(rx_stream, 7, i)]]
             ELSE IF ~ChecksumMatches(Slice(rx_stream, 5, i + 1), At(rx_stream, i + 1))
             THEN [exc |-> "ChecksumException", data |-> NoData]
             ELSE [exc |-> "none",
                   data |-> [address |-> address,
                             command |-> At(rx_stream, 6),
                             payload |-> Slice(rx_stream, 7, i)]]

\* Frame._decode_data
DecodeData(rx_stream) ==
    IF Len(rx_stream) < 7
    THEN [exc |-> "IndexError", data |-> NoData]
    ELSE LET address == At(rx_stream, 5)
             i == ScanTerminator(rx_stream, address, 7)
         IN  IF i >= Len(rx_stream) \/ i + 1 >= Len(rx_stream)
             THEN [exc |-> "IndexError", data |-> NoData]
             ELSE IF ~ChecksumMatches(Slice(rx_stream, 5, i + 1), At(rx_stream, i + 1))
             THEN [exc |-> "ChecksumException", data |-> NoData]
             ELSE [exc |-> "none",
                   data |-> [address |-> address,
                             command |-> At(rx_stream, 6),
                             payload |-> Slice(rx_stream, 7, i)]]

\* Frame._decode_frame: the echo section first, then the data section
DecodeFrame(rx_stream) ==
    LET e == DecodeEcho(rx_stream)
        d == DecodeData(rx_stream)
    IN  IF e.exc # "none"
        THEN [exc |-> e.exc, echo |-> NoEcho, data |-> NoData]
        ELSE IF d.exc # "none"
        THEN [exc |-> d.exc, echo |-> NoEcho, data |-> NoData]
        ELSE [exc |-> "none", echo |-> e.echo, data |-> d.data]

(***************************************************************************)
(* The serial channel and the device behind it.  A script fixes, for each  *)
(* send attempt of a call, what the channel does on that attempt.          *)
(***************************************************************************)
Behaviours == {"silent", "valid", "server_error", "wrong_addr", "bad_checksum",
               "bad_data_checksum", "unknown_status", "echo_only", "write_error",
               "read_error", "serial_timeout"}

\* what the channel may do on the second and third attempt of a call
LaterBehaviours == {"silent", "valid", "serial_timeout", "write_error"}

Scripts == {sc \in [1..3 -> Behaviours] :
              sc[2] \in LaterBehaviours /\ sc[3] \in LaterBehaviours}

\* the channel's behaviour on attempt n; the last entry repeats
BehaviourAt(sc, n) == IF n <= 3 THEN sc[n] ELSE sc[3]

\* an echo section as the device puts it on the wire
DeviceEcho(a, c, st) ==
    LET body == <<a, c, st, 0>> IN Append(body, SumBytes(body) % 128)

\* a data section as the device puts it on the wire
DeviceData(a, c, p) ==
    LET body == (<<a, c>> \o p) \o <<a>> IN Append(body, SumBytes(body) % 128)

\* the bytes the device sends in answer to a request; on "serial_timeout"
\* the answer is in the input buffer while the read raises
DeviceResponse(b, req) ==
    LET a     == req.address + 128
        other == ((req.address + 1) % 128) + 128
        c     == Ord(req.payload[1])
        echo  == DeviceEcho(a, c, 5)
        data  == DeviceData(a, c, <<49>>)
    IN  CASE b = "valid"          -> echo \o data
          [] b = "server_error"   -> DeviceEcho(a, c, 12) \o data
          [] b = "wrong_addr"     -> DeviceEcho(other, c, 5) \o DeviceData(other, c, <<49>>)
          [] b = "bad_checksum"   -> [echo EXCEPT ![5] = (@ + 1) % 128] \o data
          [] b = "unknown_status" -> DeviceEcho(a, c, 6) \o data
          [] b = "bad_data_checksum" ->
                 echo \o [data EXCEPT ![Len(data)] = (@ + 1) % 128]
          [] b = "echo_only"      -> echo
          [] b = "serial_timeout" -> echo \o data
          [] OTHER                -> <<>>

(***************************************************************************)
(* core/query_set.py                                                       *)
(***************************************************************************)
Ops == {"query", "set"}

Requests == {[address |-> 2, payload |-> <<"E">>],
             [address |-> 127, payload |-> <<"M", "1">>]}

Timeouts == {0, MaxTimeout}

NoRequest == [address |-> 0, payload |-> <<>>]
NoScript == [n \in 1..3 |-> "silent"]
NoRx == [echo |-> NoEcho, data |-> NoData]
NoResult == [kind |-> "none", msg |-> "none", rx |-> NoRx]

\* "trials_left: int = 3" of local_query and local_set
Trials == 3

\* a retry budget of one attempt more
TrialsFour == Trials + 1

\* the retry budget the loop starts with
InitialTrials == Trials

\* a handler that also retries when the received buffer is too short
OnExceptionRetryDecode(exc, trials) ==
    IF exc = "ResponseTimeout" \/ exc = "IndexError"
    THEN IF trials = 0 THEN "raise_timeout" ELSE "retry"
    ELSE IF exc = "ServerException" THEN "raise_server"
    ELSE "raise_general"

\* a handler that also retries when the write fails
OnExceptionRetryWrite(exc, trials) ==
    IF exc = "ResponseTimeout" \/ exc = "SerialException"
    THEN IF trials = 0 THEN "raise_timeout" ELSE "retry"
    ELSE IF exc = "ServerException" THEN "raise_server"
    ELSE "raise_general"

\* the except clauses of the retry loop of local_query and local_set
OnException(exc, trials) ==
    IF exc = "ResponseTimeout"
    THEN IF trials = 0 THEN "raise_timeout" ELSE "retry"
    ELSE IF exc = "ServerException" THEN "raise_server"
    ELSE "raise_general"

\* an except clause that sets the flag instead of clearing it
ReadyAfterSetsFlag(kind, ready) ==
    IF kind = "ServerException" THEN ready
    ELSE IF kind = "GeneralException" THEN TRUE
    ELSE ready

\* the except clauses of query and set: is_ready after the call raised kind
ReadyAfter(kind, ready) ==
    IF kind = "ServerException" THEN ready
    ELSE IF kind = "GeneralException" THEN FALSE
    ELSE ready

\* the code after the retry loop of local_query / local_set
AfterLoop(o, req) ==
    IF o = "query"
    THEN [kind |-> "AttributeError", msg |-> "echo_packet is None", rx |-> NoRx]
    ELSE IF 1 # req.address
    THEN [kind |-> "GeneralException", msg |-> "Wrong Address received", rx |-> NoRx]
    ELSE [kind |-> "GeneralException", msg |-> "Unknown error", rx |-> NoRx]

\* a return path that flips the flag
ReadyOnReturnToggles(ready) == ~ready

\* a return path that marks the layer ready
ReadyOnReturnResets(ready) == TRUE

\* "return rx_frame" of query and set: is_ready after a successful call
ReadyOnReturn(ready) == ready

\* the call ends by raising r.kind out of query / set
Raise(r) ==
    /\ pc' = "done"
    /\ result' = r
    /\ is_ready' = ReadyAfter(r.kind, is_ready)

\* an exception exc reaches the except clauses of the retry loop
Handle(exc, trials) ==
    LET a == OnException(exc, trials)
    IN  CASE a = "retry" ->
               /\ pc' = "loop"
               /\ UNCHANGED <<result, is_ready>>
          [] a = "raise_timeout" ->
               Raise([kind |-> "GeneralException", msg |-> "Timeout", rx |-> NoRx])
          [] a = "raise_server" ->
               Raise([kind |-> "ServerException", msg |-> exc, rx |-> NoRx])
          [] OTHER ->
               Raise([kind |-> "GeneralException", msg |-> exc, rx |-> NoRx])

\* a budget that gives set one attempt less than query
TrialsOfSetFewer(o) == IF o = "set" THEN InitialTrials - 1 ELSE InitialTrials

\* "trials_left: int = 3" as local_query and as local_set assign it
TrialsOf(o) == InitialTrials

\* a connection check that lets a call through only when the flag is set
CheckIfConnectedGates(ready) == ready

\* QuerySet.check_if_connected
check_if_connected(ready) == TRUE

\* QuerySet.query / QuerySet.set up to the first test of the retry loop
Call(o, req, t, sc) ==
    /\ pc = "idle"
    /\ calls < MaxCalls
    /\ op' = o
    /\ tx_frame' = req
    /\ timeout' = t
    /\ script' = sc
    /\ trials_left' = TrialsOf(o)
    /\ sends' = 0
    /\ wire' = <<>>
    /\ IF check_if_connected(is_ready)
       THEN /\ pc' = "loop"
            /\ result' = NoResult
       ELSE /\ pc' = "done"
            /\ result' = [kind |-> "NotConnectedException", msg |-> "none", rx |-> NoRx]
    /\ UNCHANGED <<is_ready, inbuf, response_frame, runtime_milliseconds, calls, codec>>

\* a send that leaves the pending input in place
ResetKeepsInput(buf) == buf

\* self.ser.reset_input_buffer() of Interface.send_string
reset_input_buffer(buf) == <<>>

\* a send that advances the address of the request it was given
RequestAfterSendNextAddress(req) == [req EXCEPT !.address = (@ + 1) % 128]

\* the request after Frame.send_frame has read its address and payload
RequestAfterSend(req) == req

\* one test of "while trials_left > 0" and, inside the loop, send_frame
\* with Interface.send_string; after the loop, the address check; o is the
\* operation, local_query or local_set, whose loop it is
AttemptOf(o) ==
    /\ pc = "loop"
    /\ IF trials_left > 0
       THEN /\ trials_left' = trials_left - 1
            /\ sends' = sends + 1
            /\ response_frame' = <<>>
            /\ runtime_milliseconds' = 0
            /\ IF BehaviourAt(script, sends + 1) = "write_error"
               THEN /\ inbuf' = reset_input_buffer(inbuf)
                    /\ wire' = wire
                    /\ tx_frame' = RequestAfterSend(tx_frame)
                    /\ Handle("SerialException", trials_left - 1)
               ELSE /\ inbuf' = reset_input_buffer(inbuf)
                                 \o DeviceResponse(BehaviourAt(script, sends + 1), tx_frame)
                    /\ wire' = Append(wire, TxStream(tx_frame.address, tx_frame.payload))
                    /\ tx_frame' = RequestAfterSend(tx_frame)
                    /\ pc' = "recv"
                    /\ UNCHANGED <<result, is_ready>>
       ELSE /\ Raise(AfterLoop(o, tx_frame))
            /\ UNCHANGED <<trials_left, sends, response_frame, runtime_milliseconds,
                           inbuf, wire, tx_frame>>
    /\ UNCHANGED <<op, timeout, script, calls, codec>>

\* the retry loop of the operation in progress
Attempt == AttemptOf(op)

(***************************************************************************)
(* interface_wrapper/interface.py: Interface.get_data_or_timeout           *)
(***************************************************************************)
RecvBehaviour == BehaviourAt(script, sends)

\* a loop that tests its guard only after the first pass
LoopRunsAtLeastOnce(elapsed, t) == elapsed < t \/ elapsed = 0

\* "while runtime_milliseconds < timeout"
LoopRuns(elapsed, t) == elapsed < t

\* one pass of the loop in which _read returns a byte
ReadByte ==
    /\ pc = "recv"
    /\ LoopRuns(runtime_milliseconds, timeout)
    /\ RecvBehaviour \notin {"read_error", "serial_timeout"}
    /\ inbuf # <<>>
    /\ response_frame' = Append(response_frame, Head(inbuf))
    /\ inbuf' = Tail(inbuf)
    /\ \E d \in 1..MaxDelta : runtime_milliseconds' = runtime_milliseconds + d
    /\ UNCHANGED <<pc, op, tx_frame, timeout, script, trials_left, sends, is_ready,
                   result, wire, calls, codec>>

\* a short read that ends the receive with ResponseTimeout
ReadTimeoutFinal ==
    /\ pc = "recv"
    /\ LoopRuns(runtime_milliseconds, timeout)
    /\ RecvBehaviour \notin {"read_error", "serial_timeout"}
    /\ Handle("ResponseTimeout", trials_left)
    /\ UNCHANGED <<op, tx_frame, timeout, script, trials_left, sends,
                   inbuf, response_frame, runtime_milliseconds, wire, calls, codec>>

\* a short read after which the elapsed time is not measured again
ReadTimeoutClockStands ==
    /\ pc = "recv"
    /\ LoopRuns(runtime_milliseconds, timeout)
    /\ RecvBehaviour \notin {"read_error", "serial_timeout"}
    /\ UNCHANGED vars

\* one pass of the loop in which _read raises ResponseTimeout (short read)
ReadTimeout ==
    /\ pc = "recv"
    /\ LoopRuns(runtime_milliseconds, timeout)
    /\ RecvBehaviour \notin {"read_error", "serial_timeout"}
    /\ \E d \in 1..MaxDelta : runtime_milliseconds' = runtime_milliseconds + d
    /\ UNCHANGED <<pc, op, tx_frame, timeout, script, trials_left, sends, is_ready,
                   result, inbuf, response_frame, wire, calls, codec>>

\* the serial library raises inside the loop: SerialTimeoutException becomes
\* ResponseTimeout, anything else ResponseException
ReadRaises ==
    /\ pc = "recv"
    /\ LoopRuns(runtime_milliseconds, timeout)
    /\ RecvBehaviour \in {"read_error", "serial_timeout"}
    /\ Handle(IF RecvBehaviour = "serial_timeout"
              THEN "ResponseTimeout" ELSE "ResponseException", trials_left)
    /\ UNCHANGED <<op, tx_frame, timeout, script, trials_left, sends,
                   inbuf, response_frame, runtime_milliseconds, wire, calls, codec>>

\* the loop ends, get_data_or_timeout returns response_frame and
\* Frame.receive_frame_or_timeout decodes it
ReceiveFrame ==
    /\ pc = "recv"
    /\ ~LoopRuns(runtime_milliseconds, timeout)
    /\ LET dec == DecodeFrame(response_frame)
       IN  IF dec.exc = "none"
           THEN /\ pc' = "done"
                /\ result' = [kind |-> "ok", msg |-> "none",
                              rx |-> [echo |-> dec.echo, data |-> dec.data]]
                /\ is_ready' = ReadyOnReturn(is_ready)
           ELSE Handle(dec.exc, trials_left)
    /\ UNCHANGED <<op, tx_frame, timeout, script, trials_left, sends,
                   inbuf, response_frame, runtime_milliseconds, wire, calls, codec>>

\* the caller has the outcome of the call; the next call may start
Return ==
    /\ pc = "done"
    /\ pc' = "idle"
    /\ op' = "query"
    /\ tx_frame' = NoRequest
    /\ timeout' = 0
    /\ script' = NoScript
    /\ trials_left' = 0
    /\ sends' = 0
    /\ result' = NoResult
    /\ response_frame' = <<>>
    /\ runtime_milliseconds' = 0
    /\ wire' = <<>>
    /\ calls' = calls + 1
    /\ UNCHANGED <<is_ready, inbuf, codec>>

NoDecoded == [exc |-> "pending", echo |-> NoEcho, data |-> NoData]

CodecIdle == [phase |-> "idle", address |-> 0, payload |-> <<>>, frame |-> <<>>,
              seq |-> <<>>, trailer |-> -1, verdict |-> "none",
              command |-> 0, status |-> 0, stream |-> <<>>, decoded |-> NoDecoded]

\* QuerySet.__init__
Init ==
    /\ pc = "idle"
    /\ op = "query"
    /\ tx_frame = NoRequest
    /\ timeout = 0
    /\ script = NoScript
    /\ trials_left = 0
    /\ sends = 0
    /\ is_ready = FALSE
    /\ result = NoResult
    /\ inbuf = <<>>
    /\ response_frame = <<>>
    /\ runtime_milliseconds = 0
    /\ wire = <<>>
    /\ calls = 0
    /\ codec = CodecIdle

StartCall == \E o \in Ops, req \in Requests, t \in Timeouts, sc \in Scripts :
                Call(o, req, t, sc)

Next ==
    \/ StartCall
    \/ Attempt
    \/ ReadByte
    \/ ReadTimeout
    \/ ReadRaises
    \/ ReceiveFrame
    \/ Return

Spec == Init /\ [][Next]_vars

(***************************************************************************)
(* The codec on its own: send_frame and the checksum applied to inputs     *)
(* drawn from bounded sets.                                                *)
(***************************************************************************)
CodecAddresses == {0, 1, 64, 69, 127}

RECURSIVE SeqsUpTo(_, _)
SeqsUpTo(S, n) ==
    IF n = 0 THEN {<<>>}
    ELSE LET shorter == SeqsUpTo(S, n - 1)
         IN  shorter \cup {Append(q, x) : q \in shorter, x \in S}

CodecPayloads == SeqsUpTo(Chars, MaxPayloadLen)

SeqBytes == {0, 1, 127, 128, 255}

CodecSeqs == SeqsUpTo(SeqBytes, MaxSeqLen)

\* address bytes as they appear on the wire
WireAddresses == {128, 130, 255}

\* the echo sections drawn for the decoder: known and unknown status, right
\* and wrong trailer
EchoStreams ==
    {[DeviceEcho(a, 69, st) EXCEPT ![5] = (@ + k) % 128] :
        a \in WireAddresses, st \in {5, 6}, k \in {0, 1}}

\* what may follow the payload of a data section: nothing, the terminator
\* alone, terminator and right trailer, terminator and wrong trailer, or a
\* complete section followed by more bytes up to a second terminator
DataTails(a, body) ==
    LET k == SumBytes(Append(body, a)) % 128
        long == (body \o <<a, k, 50>>) \o <<a>>
    IN  {<<>>, <<a>>, <<a, k>>, <<a, (k + 1) % 128>>,
         <<a, k, 50, a, SumBytes(long) % 128>>}

DataStreams(a) ==
    {<<>>} \cup
    UNION {{(<<a, 69>> \o p) \o t : t \in DataTails(a, <<a, 69>> \o p)} :
              p \in SeqsUpTo({49, a}, MaxDataLen)}

\* the received buffers drawn for the decoder
CodecStreams ==
    UNION {{e \o d : d \in DataStreams(e[1])} : e \in EchoStreams}
    \cup {Slice(e, 0, n) : e \in EchoStreams, n \in 0..4}

\* the command bytes and status codes drawn for an echo section
CodecCommands == {0, 69, 127}

InitCodec ==
    /\ pc = "idle"
    /\ op = "query"
    /\ tx_frame = NoRequest
    /\ timeout = 0
    /\ script = NoScript
    /\ trials_left = 0
    /\ sends = 0
    /\ is_ready = FALSE
    /\ result = NoResult
    /\ inbuf = <<>>
    /\ response_frame = <<>>
    /\ runtime_milliseconds = 0
    /\ wire = <<>>
    /\ calls = 0
    /\ \/ \E a \in CodecAddresses, p \in CodecPayloads :
             codec = [CodecIdle EXCEPT !.phase = "request", !.address = a, !.payload = p]
       \/ \E q \in CodecSeqs :
             codec = [CodecIdle EXCEPT !.phase = "region", !.seq = q]
       \/ \E a \in CodecAddresses, c \in CodecCommands, st \in ReturnCode :
             codec = [CodecIdle EXCEPT !.phase = "echo", !.address = a,
                                       !.command = c, !.status = st]
       \/ \E q \in CodecStreams :
             codec = [CodecIdle EXCEPT !.phase = "stream", !.stream = q]

\* Frame.send_frame builds the transmit stream of a request
CodecSendFrame ==
    /\ codec.phase = "request"
    /\ codec' = [codec EXCEPT !.phase = "encoded",
                              !.frame = TxStream(codec.address, codec.payload)]
    /\ UNCHANGED txnVars

\* Frame._calc_checksum over a region
CodecCalcChecksum ==
    /\ codec.phase = "region"
    /\ codec' = [codec EXCEPT !.phase = "summed", !.trailer = CalcChecksum(codec.seq)]
    /\ UNCHANGED txnVars

\* the decoder's verification of a region against its trailer
CodecVerify ==
    /\ codec.phase = "summed"
    /\ codec' = [codec EXCEPT !.phase = "verified",
                              !.verdict = IF ChecksumMatches(codec.seq, codec.trailer)
                                          THEN "pass" ELSE "fail"]
    /\ UNCHANGED txnVars

\* Frame._decode_echo on the wire form of an echo section
CodecDecodeEcho ==
    /\ codec.phase = "echo"
    /\ LET w == DeviceEcho(codec.address + 128, codec.command, codec.status)
           e == DecodeEcho(w)
       IN  codec' = [codec EXCEPT !.phase = "echo_decoded",
                                  !.stream = w,
                                  !.decoded = [exc |-> e.exc, echo |-> e.echo,
                                               data |-> NoData]]
    /\ UNCHANGED txnVars

\* Frame._decode_frame on a received buffer
CodecDecodeFrame ==
    /\ codec.phase = "stream"
    /\ codec' = [codec EXCEPT !.phase = "decoded",
                              !.decoded = DecodeFrame(codec.stream)]
    /\ UNCHANGED txnVars

NextCodec ==
    \/ CodecSendFrame
    \/ CodecCalcChecksum
    \/ CodecVerify
    \/ CodecDecodeEcho
    \/ CodecDecodeFrame

SpecCodec == InitCodec /\ [][NextCodec]_vars

(***************************************************************************)
(* Properties of the transaction layer, checked under Spec.                *)
(***************************************************************************)
\* every byte the device sent on the current attempt has been accumulated
FullyReceived(b) ==
    /\ BehaviourAt(script, sends) = b
    /\ response_frame = DeviceResponse(b, tx_frame)

\* C1: when the channel is silent on the first two attempts of a query and
\* delivers a valid frame on the third, the query returns that frame and
\* has made exactly 3 send attempts.
C1_RetryThenSuccess ==
    (/\ pc = "done"
     /\ op = "query"
     /\ timeout = MaxTimeout
     /\ script[1] = "silent" /\ script[2] = "silent" /\ script[3] = "valid")
    => (/\ result.kind = "ok"
        /\ sends = 3
        /\ Len(wire) = 3)

\* C2: when no byte is ever received, the query fails after exactly 3 send
\* attempts with a timeout failure that reports the attempts as exhausted.
C2_AlwaysTimeout ==
    (/\ pc = "done"
     /\ op = "query"
     /\ \A n \in 1..3 : script[n] = "silent")
    => (/\ sends = 3
        /\ result.kind = "GeneralException"
        /\ result.msg = "Timeout")

\* C3: in every state of a query or set call at most 3 frames have been
\* sent on the channel, whatever the channel does.
C3_AtMostThreeSends ==
    /\ sends <= 3
    /\ Len(wire) <= 3

\* a call that has used its whole budget: three frames are on the wire
C3_Witness ==
    /\ pc = "done"
    /\ sends = 3
    /\ Len(wire) = 3

DecodeFailures == {"IndexError", "ValueError", "ChecksumException"}

\* C4: a decode failure on received bytes (checksum mismatch, malformed
\* frame, unrecognized status) consumes one attempt like a timeout and is
\* re-sent; it reaches the caller only after all 3 attempts are used.
C4_DecodeFailureRetried ==
    (/\ pc = "done"
     /\ response_frame # <<>>
     /\ result.kind = "GeneralException"
     /\ result.msg \in DecodeFailures)
    => sends = 3

\* C5: a first response that is a valid, checksum-correct frame with a
\* server-error status makes query / set fail at once with ServerException
\* after exactly 1 send; the frame is never returned as a success.
C5_ServerErrorFailsAtOnce ==
    (/\ pc = "done"
     /\ sends = 1
     /\ FullyReceived("server_error"))
    => result.kind = "ServerException"

\* C6: a valid, checksum-correct frame whose echoed address differs from
\* the request's address makes query / set fail at once with an
\* address-mismatch failure; it is never returned as a response.
C6_AddressMismatchFails ==
    (/\ pc = "done"
     /\ FullyReceived("wrong_addr"))
    => (/\ result.kind = "GeneralException"
        /\ result.msg = "Wrong Address received")

\* C7: after a query or set call that failed with anything but a
\* server-reported error, is_ready is false.
C7_NotReadyAfterFailure ==
    (/\ pc = "done"
     /\ result.kind \notin {"ok", "ServerException"})
    => is_ready = FALSE

\* a call has failed with GeneralException
C7_Witness ==
    /\ pc = "done"
    /\ result.kind = "GeneralException"
    /\ is_ready = FALSE

\* C8: an error raised by the channel while the request is written is not
\* retried: the call fails on that attempt, nothing more is sent, and
\* is_ready is false afterwards.
C8_WriteErrorNotRetried ==
    \A n \in 1..3 :
        (pc # "idle" /\ n <= sends /\ script[n] = "write_error")
        => (/\ n = sends
            /\ pc = "done"
            /\ result.kind = "GeneralException"
            /\ result.msg = "SerialException"
            /\ Len(wire) = n - 1
            /\ is_ready = FALSE)

\* the write fails on the second attempt, with one attempt still left
C8_Witness ==
    /\ pc = "done"
    /\ sends = 2
    /\ trials_left = 1
    /\ script[2] = "write_error"
    /\ result.kind = "GeneralException"

(***************************************************************************)
(* Properties of the codec, checked under SpecCodec.                       *)
(***************************************************************************)
\* C9: for address A in 0..127 and ASCII payload P the bytes written are
\* A+128, the bytes of P in order, A+128 again, and one trailer equal to
\* the sum of all preceding bytes modulo 128; the length is len(P)+3.
C9_FrameLayout ==
    codec.phase = "encoded" =>
        LET f == codec.frame
            n == Len(codec.payload)
        IN  /\ Len(f) = n + 3
            /\ f[1] = codec.address + 128
            /\ \A i \in 1..n : f[i + 1] = Ord(codec.payload[i])
            /\ f[n + 2] = codec.address + 128
            /\ f[n + 3] \in 0..127
            /\ (SumBytes(SubSeq(f, 1, n + 2)) - f[n + 3]) % 128 = 0

\* a request with address 127 and a two-character payload has been encoded
C9_Witness ==
    /\ codec.phase = "encoded"
    /\ codec.address = 127
    /\ Len(codec.payload) = 2

\* C10: the checksum of a byte sequence is the sum of its bytes masked to
\* the low 7 bits, and verifying the sequence against that trailer succeeds.
C10_ChecksumRoundTrip ==
    /\ codec.phase \in {"summed", "verified"} =>
          /\ codec.trailer \in 0..127
          /\ (SumBytes(codec.seq) - codec.trailer) % 128 = 0
    /\ codec.phase = "verified" => codec.verdict = "pass"

\* a sequence whose byte sum exceeds 7 bits has been verified
C10_Witness ==
    /\ codec.phase = "verified"
    /\ Len(codec.seq) = MaxSeqLen
    /\ SumBytes(codec.seq) >= 256
    /\ codec.verdict = "pass"

\* C21: every checksum the codec computes lies in 0..127: the trailer byte
\* that send_frame emits, and the checksum of any byte sequence, never has
\* the high bit set.
C21_ChecksumSevenBits ==
    /\ codec.phase = "encoded" => codec.frame[Len(codec.frame)] \in 0..127
    /\ codec.phase = "summed" => codec.trailer \in 0..127

\* a request whose bytes before the trailer sum to more than 8 bits has
\* been encoded
C21_Witness ==
    /\ codec.phase = "encoded"
    /\ SumBytes(SubSeq(codec.frame, 1, Len(codec.frame) - 1)) >= 256
    /\ codec.frame[Len(codec.frame)] < 128

\* C22: in an encoded request the only bytes with the high bit set are the
\* two address bytes at positions 0 and len-2; no payload byte and not the
\* trailer equals the address byte, so a scan for the first byte equal to
\* the address, started after the leading address byte (and, as the decoder
\* does, two bytes after it when there is a payload), stops exactly at the
\* repeated address byte.
C22_AddressBytesDisjoint ==
    codec.phase = "encoded" =>
        LET f == codec.frame
            n == Len(f)
        IN  /\ \A k \in 1..n : (f[k] >= 128) <=> (k = 1 \/ k = n - 1)
            /\ \A k \in 1..n : (f[k] = f[1]) <=> (k = 1 \/ k = n - 1)
            /\ ScanTerminator(f, At(f, 0), 1) = n - 2
            /\ Len(codec.payload) >= 1 => ScanTerminator(f, At(f, 0), 2) = n - 2

\* a request whose logical address is the code of its own payload
\* character "E" has been encoded
C22_Witness ==
    /\ codec.phase = "encoded"
    /\ Len(codec.payload) = MaxPayloadLen
    /\ \E k \in 1..Len(codec.payload) : Ord(codec.payload[k]) = codec.address

\* C11: an echo section {A, C, S} with A in 0..127 and a valid status S,
\* put on the wire with the address high bit set and a correct trailer,
\* decodes to address A, command C and status S, the checksum passing.
C11_EchoRoundTrip ==
    codec.phase = "echo_decoded" =>
        /\ codec.decoded.exc = "none"
        /\ codec.decoded.echo.address = codec.address
        /\ codec.decoded.echo.command = codec.command
        /\ codec.decoded.echo.return_code = codec.status

\* the echo section at the head of buffer s is well formed: known status
\* and a trailer equal to the sum of the four bytes before it modulo 128
EchoPartValid(s) ==
    /\ Len(s) >= 5
    /\ s[3] \in ReturnCode
    /\ SumBytes(SubSeq(s, 1, 4)) % 128 = s[5]

\* C12: a buffer that is exactly a valid 5-byte echo section decodes to a
\* response with that echo section and no data section.
C12_EchoOnlyDecodes ==
    (/\ codec.phase = "decoded"
     /\ Len(codec.stream) = 5
     /\ EchoPartValid(codec.stream))
    => (/\ codec.decoded.exc = "none"
        /\ codec.decoded.echo = [address |-> codec.stream[1],
                                 command |-> codec.stream[2],
                                 return_code |-> codec.stream[3]]
        /\ codec.decoded.data = NoData)

\* the positions (counted from 1) at or after Python index 7 whose byte
\* equals the data-section address
TerminatorHits(s) == {k \in 8..Len(s) : s[k] = s[6]}

FirstHit(s) == CHOOSE k \in TerminatorHits(s) : \A j \in TerminatorHits(s) : k <= j

\* C13: with a = byte 5, the decoder takes the first index i >= 7 whose byte
\* is a, returns payload bytes[7:i] and verifies the 7-bit sum of
\* bytes[5:i+1] against bytes[i+1]; a payload without a is recovered whole,
\* a payload containing a is cut at the first a.
C13_TerminatorScan ==
    (/\ codec.phase = "decoded"
     /\ EchoPartValid(codec.stream)
     /\ Len(codec.stream) >= 7
     /\ TerminatorHits(codec.stream) # {}
     /\ FirstHit(codec.stream) < Len(codec.stream))
    => LET s == codec.stream
           i == FirstHit(s)
       IN  IF SumBytes(SubSeq(s, 6, i)) % 128 = s[i + 1]
           THEN /\ codec.decoded.exc = "none"
                /\ codec.decoded.data.address = s[6]
                /\ codec.decoded.data.command = s[7]
                /\ codec.decoded.data.payload = SubSeq(s, 8, i - 1)
           ELSE codec.decoded.exc = "ChecksumException"

\* a data section whose bytes after the first terminator go on to a second
\* terminator has been decoded to the payload before the first one
C13_Witness ==
    /\ codec.phase = "decoded"
    /\ codec.decoded.exc = "none"
    /\ Cardinality(TerminatorHits(codec.stream)) >= 2
    /\ Len(codec.decoded.data.payload) = MaxDataLen
    /\ Len(codec.stream) = 5 + 2 + MaxDataLen + 5

C15_UnknownStatusFails ==
    /\ (codec.phase = "decoded" /\ Len(codec.stream) >= 3
        /\ codec.stream[3] \notin ReturnCode)
       => (codec.decoded.exc = "ValueError" /\ codec.decoded.echo = NoEcho)
    /\ (codec.phase \in {"decoded", "echo_decoded"} /\ codec.decoded.exc = "none")
       => codec.decoded.echo.return_code \in ReturnCode

\* a checksum-correct buffer with status byte 6 was rejected
C15_Witness ==
    /\ codec.phase = "decoded"
    /\ Len(codec.stream) > 5
    /\ codec.stream[3] = 6
    /\ SumBytes(SubSeq(codec.stream, 1, 4)) % 128 = codec.stream[5]
    /\ codec.decoded.exc = "ValueError"

(***************************************************************************)
(* Further properties of the transaction layer, checked under Spec.        *)
(***************************************************************************)
\* the data section of buffer s ends at a first terminator that is followed
\* by a trailer equal to the 7-bit sum of the section
DataPartValid(s) ==
    /\ Len(s) >= 9
    /\ TerminatorHits(s) # {}
    /\ FirstHit(s) < Len(s)
    /\ SumBytes(SubSeq(s, 6, FirstHit(s))) % 128 = s[FirstHit(s) + 1]

\* C16: every response returned by query or set has passed the checksum
\* verification of its echo section and of its data section; a buffer with
\* a wrong trailer in either section is never returned as a response.
C16_ReturnedFramesVerified ==
    /\ (pc = "done" /\ result.kind = "ok")
       => (/\ Len(response_frame) >= 5
           /\ SumBytes(SubSeq(response_frame, 1, 4)) % 128 = response_frame[5]
           /\ DataPartValid(response_frame))
    /\ (pc = "done" /\ (FullyReceived("bad_checksum") \/ FullyReceived("bad_data_checksum")))
       => (result.kind = "GeneralException" /\ result.msg = "ChecksumException")

\* a response whose data section alone has a wrong trailer was rejected
C16_Witness ==
    /\ pc = "done"
    /\ FullyReceived("bad_data_checksum")
    /\ result.kind = "GeneralException"

\* C17: accumulation ends as soon as the bytes received form a complete,
\* well-formed frame, without waiting for the rest of the timeout.
C17_StopsWhenComplete ==
    [][(pc = "recv" /\ FullyReceived("valid")) => pc' # "recv"]_vars

\* C18: get_data_or_timeout raises ResponseTimeout when 0 bytes were
\* received during the timeout, so what follows an empty accumulation is a
\* retry or the timeout failure, never a decode of the empty buffer.
C18_TimeoutOnNoBytes ==
    [][(/\ pc = "recv"
        /\ timeout > 0
        /\ runtime_milliseconds >= timeout
        /\ response_frame = <<>>)
       => (\/ pc' = "loop"
           \/ (pc' = "done" /\ result'.msg = "Timeout"))]_vars

IsPrefix(p, q) == Len(p) <= Len(q) /\ p = SubSeq(q, 1, Len(p))

\* C19: every send discards the pending input before the request is
\* written, so the bytes accumulated for an attempt are bytes the device
\* sent in answer to that attempt, never bytes pending from before it.
C19_NoStaleInput ==
    (pc \in {"recv", "done"} /\ sends >= 1)
    => IsPrefix(response_frame, DeviceResponse(RecvBehaviour, tx_frame))

\* the reply to the first attempt was pending when the second send went
\* out, and the second attempt returned its own reply
C19_Witness ==
    /\ pc = "done"
    /\ sends = 2
    /\ script[1] = "serial_timeout"
    /\ script[2] = "valid"
    /\ result.kind = "ok"
    /\ response_frame = DeviceResponse("valid", tx_frame)

\* C20: a successful query or set leaves is_ready as it was: false before
\* the call, false after it.
C20_SuccessKeepsFlag ==
    [][(pc = "recv" /\ pc' = "done" /\ result'.kind = "ok")
       => (is_ready' = is_ready /\ is_ready' = FALSE)]_vars

\* a call succeeded after an earlier call on the same QuerySet
C20_Witness ==
    /\ pc = "done"
    /\ result.kind = "ok"
    /\ calls >= 1
    /\ is_ready = FALSE

\* C23: a single-byte read that times out is not a final failure: while the
\* elapsed time is below the caller's timeout the receive goes on with
\* another pass, the elapsed time having advanced, and the bytes accumulated
\* so far are kept, in the order the device sent them, none lost.
C23_ReadTimeoutNotFinal ==
    /\ []((pc = "recv" /\ sends >= 1)
          => response_frame \o inbuf = DeviceResponse(RecvBehaviour, tx_frame))
    /\ [][(/\ pc = "recv"
           /\ runtime_milliseconds < timeout
           /\ RecvBehaviour \notin {"read_error", "serial_timeout"})
          => (/\ pc' = "recv"
              /\ runtime_milliseconds' > runtime_milliseconds
              /\ IsPrefix(response_frame, response_frame'))]_vars

\* more time has passed than the bytes received so far can account for, so
\* at least one read has timed out; bytes are kept, more are pending and the
\* timeout has not elapsed
C23_Witness ==
    /\ pc = "recv"
    /\ response_frame # <<>>
    /\ inbuf # <<>>
    /\ runtime_milliseconds > MaxDelta * Len(response_frame)
    /\ runtime_milliseconds < timeout

LiveScripts == {sc \in Scripts : sc[2] = sc[3]}

LiveRequest == [address |-> 2, payload |-> <<"E">>]

\* the timeouts drawn for it: negative, zero (as MN100.move computes for a
\* move to the current position) and positive
LiveTimeouts == {-1, 0, MaxTimeout}

StartCallLive == \E o \in Ops, t \in LiveTimeouts, sc \in LiveScripts :
                    Call(o, LiveRequest, t, sc)

\* one call on a new QuerySet
NextLive ==
    \/ StartCallLive
    \/ Attempt
    \/ ReadByte
    \/ ReadTimeout
    \/ ReadRaises
    \/ ReceiveFrame

\* one call, its steps taken as long as one is possible: every operation is
\* synchronous, each write and read returns and the clock advances
SpecLive == Init /\ [][NextLive]_vars /\ WF_vars(NextLive)

\* C25: every query or set call terminates: a call in its retry loop or in
\* a receive eventually returns or raises, after at most 3 attempts.
C25_CallTerminates ==
    /\ (pc \in {"loop", "recv"}) ~> (pc = "done")
    /\ [](sends <= Trials)

\* a call has ended with the timeout failure after its third attempt
C25_Witness ==
    /\ pc = "done"
    /\ timeout = MaxTimeout
    /\ sends = Trials
    /\ result.msg = "Timeout"

\* C26: the request is not modified by a transaction: every send writes
\* the same byte sequence, the encoding of the request, and the request's
\* address and payload stay as they are while the call runs.
C26_RequestUnchanged ==
    /\ [](\A i \in 1..Len(wire) :
             wire[i] = TxStream(tx_frame.address, tx_frame.payload))
    /\ [][(pc \in {"loop", "recv"}) => (tx_frame' = tx_frame)]_vars

\* three frames have been written and the third attempt returned
C26_Witness ==
    /\ pc = "done"
    /\ Len(wire) = 3
    /\ wire[1] = wire[3]
    /\ result.kind = "ok"

C28_NeverReady == is_ready = FALSE

\* all the calls drawn for one QuerySet have been made
C28_Witness ==
    /\ pc = "idle"
    /\ calls = MaxCalls
    /\ is_ready = FALSE

ReadPositionTimeoutMs == 500

\* the loop of get_data_or_timeout compares the elapsed milliseconds with
\* the timeout; in ticks of 10 ms, "10 * ticks < ms" is "ticks < TicksOf(ms)"
TicksOf(ms) == (ms + 9) \div 10

\* the target positions drawn for move: the position the device reports,
\* one close to it and one far enough for the answer to arrive in time
MovePositions == {1, 9, 191}

DigitChar(d) ==
    CASE d = 0 -> "0" [] d = 1 -> "1" [] d = 2 -> "2" [] d = 3 -> "3"
      [] d = 4 -> "4" [] d = 5 -> "5" [] d = 6 -> "6" [] d = 7 -> "7"
      [] d = 8 -> "8" [] d = 9 -> "9"

\* the f-string "{value}" of a non-negative int
RECURSIVE FormatInt(_)
FormatInt(n) ==
    IF n < 10 THEN <<DigitChar(n)>>
    ELSE Append(FormatInt(n \div 10), DigitChar(n % 10))

\* int(pos.decode()) on a payload of digit bytes; -1 stands for ValueError
RECURSIVE ParseInt(_)
ParseInt(payload) ==
    IF payload = <<>> THEN -1
    ELSE LET last == payload[Len(payload)]
             front == SubSeq(payload, 1, Len(payload) - 1)
         IN  IF last \notin 48..57 THEN -1
             ELSE IF front = <<>> THEN last - 48
             ELSE IF ParseInt(front) < 0 THEN -1
             ELSE 10 * ParseInt(front) + (last - 48)

\* a read_position that reports position 0 when the query failed
ReadPositionSwallows(r) ==
    IF r.kind = "ok" THEN ParseInt(r.rx.data.payload) ELSE 0

\* MN100.read_position on the outcome r of its query; -1 stands for the
\* exception that get_command or int() raised
read_position(r) ==
    IF r.kind = "ok" THEN ParseInt(r.rx.data.payload) ELSE -1

\* timeout_milliseconds of move: round(1000 * 1.2 * |pos - start| / 2000)
MoveTimeoutMs(pos, start) ==
    LET delta_position == IF pos >= start THEN pos - start ELSE start - pos
    IN  (6 * delta_position + 5) \div 10

\* TxPacket of BasicCmd.get_command(address, "E", ...)
ReadPositionRequest == [address |-> LiveRequest.address, payload |-> add_string(<<>>, <<"E">>)]

\* TxPacket of BasicCmd.set_command(address, "M", pos, ...)
MoveRequest(pos) ==
    [address |-> LiveRequest.address, payload |-> add_string(<<>>, <<"M">> \o FormatInt(pos))]

\* move calls read_position, which calls get_command and QuerySet.query
MoveReadPosition ==
    /\ calls = 0
    /\ \E sc \in LiveScripts :
          Call("query", ReadPositionRequest, TicksOf(ReadPositionTimeoutMs), sc)

\* the query has ended: read_position returns the position to move, or the
\* exception leaves move
MoveReadReturns ==
    /\ pc = "done"
    /\ calls = 0
    /\ IF read_position(result) >= 0
       THEN /\ pc' = "idle"
            /\ calls' = 1
       ELSE /\ pc' = "move_failed"
            /\ calls' = calls
    /\ UNCHANGED <<op, tx_frame, timeout, script, trials_left, sends, is_ready,
                   result, inbuf, response_frame, runtime_milliseconds, wire, codec>>

\* move computes the timeout and calls set_command and QuerySet.set; the
\* argument pos is first read here
MoveSendCommand ==
    /\ calls = 1
    /\ \E pos \in MovePositions, sc \in LiveScripts :
          Call("set", MoveRequest(pos),
               TicksOf(MoveTimeoutMs(pos, read_position(result))), sc)

\* set_command has ended: move returns its response or raises
MoveReturns ==
    /\ pc = "done"
    /\ calls = 1
    /\ pc' = IF result.kind = "ok" THEN "moved" ELSE "move_failed"
    /\ UNCHANGED <<op, tx_frame, timeout, script, trials_left, sends, is_ready,
                   result, inbuf, response_frame, runtime_milliseconds, wire, calls,
                   codec>>

NextMove ==
    \/ MoveReadPosition
    \/ Attempt
    \/ ReadByte
    \/ ReadTimeout
    \/ ReadRaises
    \/ ReceiveFrame
    \/ MoveReadReturns
    \/ MoveSendCommand
    \/ MoveReturns

\* one call of MN100.move on a connected device
SpecMove == Init /\ [][NextMove]_vars

\* frame f, as written to the channel, carries the move command
IsMoveFrame(f) == Len(f) >= 2 /\ f[2] = Ord("M")

\* C31: move performs the read-position query ("E") to completion before
\* the move command ("M<pos>") is sent: a move frame is written only after
\* the query has returned a position, until then only "E" frames are
\* written, and when the query fails move fails with nothing more written.
C31_ReadBeforeMove ==
    /\ [](\A i \in 1..Len(wire) :
             /\ IsMoveFrame(wire[i]) => calls = 1
             /\ calls = 0 => wire[i] = TxStream(ReadPositionRequest.address,
                                                ReadPositionRequest.payload))
    /\ [][(calls = 0 /\ calls' = 1)
          => (/\ pc = "done"
              /\ op = "query"
              /\ tx_frame = ReadPositionRequest
              /\ result.kind = "ok")]_vars
    /\ [][(pc = "done" /\ calls = 0 /\ result.kind # "ok")
          => (pc' = "move_failed" /\ wire' = wire /\ sends' = sends)]_vars
    /\ [][(pc = "move_failed") => (wire' = wire /\ sends' = sends)]_vars

\* the position query has returned, the move command for a distant target
\* has then been written once, and the device has answered it
C31_Witness ==
    /\ pc = "moved"
    /\ calls = 1
    /\ script[1] = "valid"
    /\ tx_frame = MoveRequest(191)
    /\ wire = <<TxStream(tx_frame.address, tx_frame.payload)>>

====
